---- MODULE Spec2Model ----
(***************************************************************************)
(* The image overlay of the text buffer: ImageSlice (one growable pixel    *)
(* buffer per row), and the static entry points that copy and erase cells, *)
(* rows and blocks (src/src/buffer/out/ImageSlice.cpp).                    *)
(*                                                                         *)
(* A ROW owns its slice through a std::unique_ptr.  The model keeps the    *)
(* pointer and the pointee apart: a row holds an address (NullPtr for an   *)
(* empty unique_ptr) and `heap` maps an address to the ImageSlice stored   *)
(* there, so that sharing of a slice by two rows, and a source slice that  *)
(* is also the destination slice, are states the model can express.        *)
(* Columns, row offsets and pixel offsets are 0-based as in the code; a    *)
(* pixel buffer is a sequence, so offset p is element p + 1.               *)
(***************************************************************************)
EXTENDS Integers, Sequences, FiniteSets, TLC

\* ---------------------------------------------------------------- bounds
\* rows of the text buffer the cell-level calls are made on
NumRows == 2
\* rows of the text buffer the block-level calls are made on
NumBlockRows == 3
\* columns of the cell-level calls are 0 .. MaxColumn
MaxColumn == 3
\* columns of the block-level calls are 0 .. MaxBlockColumn
MaxBlockColumn == 2
\* calls made before the call under observation, that call included
MaxSteps == 3
\* the cell size images are written with
CellWidth == 3
CellHeight == 2

Min(a, b) == IF a < b THEN a ELSE b
Max(a, b) == IF a > b THEN a ELSE b

SetMax(S) == CHOOSE x \in S : \A y \in S : y <= x

\* ------------------------------------------------------------ collaborators
\* LineRendition of a ROW: the code only compares renditions with each other
\* and with SingleWidth.
LineRenditions == {"SingleWidth", "DoubleWidth", "DoubleHeightTop"}

Columns == 0 .. MaxColumn
BlockColumns == 0 .. MaxBlockColumn

NullPtr == 0

\* The address of the ImageSlice a row's unique_ptr allocates.
Alloc(row) == row + 1

\* ------------------------------------------------------------- ImageSlice
\* ImageSlice::ImageSlice(cellSize): the column range, the stride and the
\* pixel buffer start out empty.
ImageSlice(cellSize) ==
    [cellSize |-> cellSize, columnBegin |-> 0, columnEnd |-> 0,
     pixelWidth |-> 0, pixelBuffer |-> <<>>]

\* What a heap cell holds while no row owns a slice there.
Released == ImageSlice([width |-> 0, height |-> 0])

\* Faulty variant of AlignUp4: the width is not rounded.
Unaligned(n) == n

\* (n + 3) & ~3
AlignUp4(n) == ((n + 3) \div 4) * 4

\* ImageSlice::Pixels(columnBegin): the pixel offset of a column.
Pixels(slice, columnBegin) ==
    (columnBegin - slice.columnBegin) * slice.cellSize.width

\* Faulty variant of MustResize: a request past columnEnd does not resize.
MustResizeLeftOnly(slice, columnBegin, columnEnd) ==
    \/ Len(slice.pixelBuffer) = 0
    \/ columnBegin < slice.columnBegin

\* Whether MutablePixels(columnBegin, columnEnd) has to resize the buffer.
MustResize(slice, columnBegin, columnEnd) ==
    \/ Len(slice.pixelBuffer) = 0
    \/ columnBegin < slice.columnBegin
    \/ columnEnd > slice.columnEnd

\* Faulty variant of CopyScanlines: the old scanlines are copied to the start of the
\* new ones, whatever the change of columnBegin.
CopyScanlinesUnshifted(slice, newColumnBegin, newPixelWidth, bufferSize) ==
    [k \in 1 .. bufferSize |->
        LET i == (k - 1) \div newPixelWidth
            x == (k - 1) % newPixelWidth
        IN  IF x < slice.pixelWidth THEN slice.pixelBuffer[i * slice.pixelWidth + x + 1]
            ELSE 0]

\* The scanline loop of MutablePixels: scanline i of the old buffer
\* (oldPixelWidth pixels, its padding included) is copied to offset
\* newOffset + i * newPixelWidth of a zero-initialised buffer, i ascending, so
\* a later scanline overwrites what an earlier one spilt over the stride.
CopyScanlines(slice, newColumnBegin, newPixelWidth, bufferSize) ==
    LET newOffset == (slice.columnBegin - newColumnBegin) * slice.cellSize.width
        oldPixelWidth == slice.pixelWidth
        Writers(p) == {i \in 0 .. (slice.cellSize.height - 1) :
                          /\ newOffset + i * newPixelWidth <= p
                          /\ p < newOffset + i * newPixelWidth + oldPixelWidth}
    IN  [k \in 1 .. bufferSize |->
            LET p == k - 1
            IN  IF Writers(p) = {} THEN 0
                ELSE LET i == SetMax(Writers(p))
                     IN  slice.pixelBuffer[i * oldPixelWidth
                                           + (p - newOffset - i * newPixelWidth) + 1]]

\* Faulty variant of GrownRange: the requested range replaces the covered range.
GrownRangeRequested(slice, columnBegin, columnEnd) ==
    [begin |-> columnBegin, end |-> columnEnd]

\* The range MutablePixels resizes the slice to: the requested range, united
\* with the covered range when there is existing data.
GrownRange(slice, columnBegin, columnEnd) ==
    LET existingData == Len(slice.pixelBuffer) # 0
    IN  [begin |-> IF existingData THEN Min(slice.columnBegin, columnBegin)
                   ELSE columnBegin,
         end |-> IF existingData THEN Max(slice.columnEnd, columnEnd)
                 ELSE columnEnd]

\* ImageSlice::MutablePixels(columnBegin, columnEnd): the slice after the call.
MutablePixels(slice, columnBegin, columnEnd) ==
    IF MustResize(slice, columnBegin, columnEnd)
    THEN LET existingData == Len(slice.pixelBuffer) # 0
             range == GrownRange(slice, columnBegin, columnEnd)
             newPixelWidth == AlignUp4((range.end - range.begin) * slice.cellSize.width)
             bufferSize == newPixelWidth * slice.cellSize.height
         IN  [slice EXCEPT
                 !.columnBegin = range.begin,
                 !.columnEnd = range.end,
                 !.pixelWidth = newPixelWidth,
                 !.pixelBuffer =
                     IF existingData
                     THEN CopyScanlines(slice, range.begin, newPixelWidth, bufferSize)
                     ELSE [k \in 1 .. bufferSize |-> 0]]
    ELSE slice

\* The position MutablePixels(columnBegin, columnEnd) returns, as an offset
\* into the pixel buffer the call leaves: the offset of columnBegin from the
\* columnBegin the slice has after the resize.
ReturnedPosition(slice, columnBegin, columnEnd) ==
    Pixels(MutablePixels(slice, columnBegin, columnEnd), columnBegin)

\* Whether the scanline loop of MutablePixels writes past the end of the new
\* buffer (std::copy_n through an unchecked vector iterator).
GrowthOverruns(slice, columnBegin, columnEnd) ==
    /\ MustResize(slice, columnBegin, columnEnd)
    /\ Len(slice.pixelBuffer) # 0
    /\ LET grown == MutablePixels(slice, columnBegin, columnEnd)
           newOffset == (slice.columnBegin - grown.columnBegin) * slice.cellSize.width
       IN  newOffset + (slice.cellSize.height - 1) * grown.pixelWidth
             + slice.pixelWidth > Len(grown.pixelBuffer)

\* Faulty variant of ErasesAll: the containment test made strict.
ErasesAllStrictly(slice, columnBegin, columnEnd) ==
    columnBegin < slice.columnBegin /\ columnEnd > slice.columnEnd

\* Faulty variant of ErasesAll: a slice whose pixels are all zero already is
\* reported as erased entirely too.
ErasesAllOrBlank(slice, columnBegin, columnEnd) ==
    \/ columnBegin <= slice.columnBegin /\ columnEnd >= slice.columnEnd
    \/ \A k \in DOMAIN slice.pixelBuffer : slice.pixelBuffer[k] = 0

\* The test of _eraseCells for erasing the entire range in use.
ErasesAll(slice, columnBegin, columnEnd) ==
    columnBegin <= slice.columnBegin /\ columnEnd >= slice.columnEnd

\* Faulty variant of ZeroFill: the fill advances by the unpadded width of the
\* covered range instead of pixelWidth.
ZeroFillUnpadded(slice, eraseBegin, eraseEnd) ==
    LET eraseOffset == (eraseBegin - slice.columnBegin) * slice.cellSize.width
        eraseLength == (eraseEnd - eraseBegin) * slice.cellSize.width
        stride == (slice.columnEnd - slice.columnBegin) * slice.cellSize.width
        Filled(p) == \E y \in 0 .. (slice.cellSize.height - 1) :
                        /\ eraseOffset + y * stride <= p
                        /\ p < eraseOffset + y * stride + eraseLength
    IN  [slice EXCEPT !.pixelBuffer =
            [k \in 1 .. Len(slice.pixelBuffer) |->
                IF Filled(k - 1) THEN 0 ELSE slice.pixelBuffer[k]]]

\* Faulty variant of ZeroFill: a fill that reaches an end of the covered range
\* also takes the filled columns out of the covered range.
ZeroFillNarrowing(slice, eraseBegin, eraseEnd) ==
    LET eraseOffset == (eraseBegin - slice.columnBegin) * slice.cellSize.width
        eraseLength == (eraseEnd - eraseBegin) * slice.cellSize.width
        Filled(p) == \E y \in 0 .. (slice.cellSize.height - 1) :
                        /\ eraseOffset + y * slice.pixelWidth <= p
                        /\ p < eraseOffset + y * slice.pixelWidth + eraseLength
    IN  [slice EXCEPT
            !.columnBegin = IF eraseBegin = slice.columnBegin THEN eraseEnd ELSE @,
            !.columnEnd = IF eraseEnd = slice.columnEnd /\ eraseBegin # slice.columnBegin
                          THEN eraseBegin ELSE @,
            !.pixelBuffer =
                [k \in 1 .. Len(slice.pixelBuffer) |->
                    IF Filled(k - 1) THEN 0 ELSE slice.pixelBuffer[k]]]

\* The fill loop of _eraseCells: eraseLength zero pixels from eraseOffset on
\* each of the cellSize.height scanlines, advancing by pixelWidth.
ZeroFill(slice, eraseBegin, eraseEnd) ==
    LET eraseOffset == (eraseBegin - slice.columnBegin) * slice.cellSize.width
        eraseLength == (eraseEnd - eraseBegin) * slice.cellSize.width
        Filled(p) == \E y \in 0 .. (slice.cellSize.height - 1) :
                        /\ eraseOffset + y * slice.pixelWidth <= p
                        /\ p < eraseOffset + y * slice.pixelWidth + eraseLength
    IN  [slice EXCEPT !.pixelBuffer =
            [k \in 1 .. Len(slice.pixelBuffer) |->
                IF Filled(k - 1) THEN 0 ELSE slice.pixelBuffer[k]]]

\* ImageSlice::_eraseCells(columnBegin, columnEnd): the value returned and the
\* slice after the call.
_eraseCells(slice, columnBegin, columnEnd) ==
    IF ErasesAll(slice, columnBegin, columnEnd)
    THEN [erased |-> TRUE, slice |-> slice]
    ELSE LET eraseBegin == Max(columnBegin, slice.columnBegin)
             eraseEnd == Min(columnEnd, slice.columnEnd)
         IN  [erased |-> FALSE,
              slice |-> IF eraseBegin < eraseEnd
                        THEN ZeroFill(slice, eraseBegin, eraseEnd)
                        ELSE slice]

\* What a read outside a pixel buffer yields.
Indeterminate == -1

ReadPixel(pixelBuffer, p) ==
    IF p + 1 \in DOMAIN pixelBuffer THEN pixelBuffer[p + 1] ELSE Indeterminate

\* The scanline loop of _copyCells from scanline y on: each std::memmove
\* moves `count` pixels from the source position to the destination position,
\* and the positions advance by each slice's own pixelWidth.  The source is
\* read through the heap, so a source slice that is the destination slice
\* sees the scanlines already moved.
RECURSIVE MoveScanlines(_, _, _, _, _, _, _)
MoveScanlines(hp, dst, src, dstOffset, srcOffset, count, y) ==
    IF y >= hp[dst].cellSize.height THEN hp
    ELSE LET dstPos == dstOffset + y * hp[dst].pixelWidth
             srcPos == srcOffset + y * hp[src].pixelWidth
             srcBuffer == hp[src].pixelBuffer
             dstBuffer == hp[dst].pixelBuffer
             moved == [k \in 1 .. Len(dstBuffer) |->
                          IF dstPos <= k - 1 /\ k - 1 < dstPos + count
                          THEN ReadPixel(srcBuffer, srcPos + (k - 1 - dstPos))
                          ELSE dstBuffer[k]]
         IN  MoveScanlines([hp EXCEPT ![dst].pixelBuffer = moved],
                           dst, src, dstOffset, srcOffset, count, y + 1)

\* Whether a std::memmove of the scanline loop reads or writes outside a
\* pixel buffer.
MoveOverruns(hp, dst, src, dstOffset, srcOffset, count) ==
    \E y \in 0 .. (hp[dst].cellSize.height - 1) :
        \/ dstOffset + y * hp[dst].pixelWidth + count > Len(hp[dst].pixelBuffer)
        \/ srcOffset + y * hp[src].pixelWidth + count > Len(hp[src].pixelBuffer)

\* Faulty variant of CopyRanges: the used source range is the requested source
\* range, not its intersection with the source's covered range.
CopyRangesUnclamped(srcSlice, this, srcColumn, dstColumnBegin, dstColumnEnd) ==
    LET srcColumnEnd == srcColumn + dstColumnEnd - dstColumnBegin
        dstUsedBegin == Max(dstColumnBegin, this.columnBegin)
        dstUsedEnd == Max(Min(dstColumnEnd, this.columnEnd), dstUsedBegin)
    IN  [srcUsedBegin |-> srcColumn, srcUsedEnd |-> Max(srcColumnEnd, srcColumn),
         dstUsedBegin |-> dstUsedBegin, dstUsedEnd |-> dstUsedEnd,
         dstWriteBegin |-> dstColumnBegin,
         dstWriteEnd |-> Max(dstColumnEnd, dstColumnBegin)]

\* The ranges _copyCells computes before it touches a buffer.
CopyRanges(srcSlice, this, srcColumn, dstColumnBegin, dstColumnEnd) ==
    LET srcColumnEnd == srcColumn + dstColumnEnd - dstColumnBegin
        srcUsedBegin == Max(srcColumn, srcSlice.columnBegin)
        srcUsedEnd == Max(Min(srcColumnEnd, srcSlice.columnEnd), srcUsedBegin)
        dstUsedBegin == Max(dstColumnBegin, this.columnBegin)
        dstUsedEnd == Max(Min(dstColumnEnd, this.columnEnd), dstUsedBegin)
        projectedOffset == dstColumnBegin - srcColumn
    IN  [srcUsedBegin |-> srcUsedBegin, srcUsedEnd |-> srcUsedEnd,
         dstUsedBegin |-> dstUsedBegin, dstUsedEnd |-> dstUsedEnd,
         dstWriteBegin |-> srcUsedBegin + projectedOffset,
         dstWriteEnd |-> srcUsedEnd + projectedOffset]

\* The value _copyCells returns, read from the slice as the call leaves it.
CopyCellsResult(slice) == slice.columnBegin >= slice.columnEnd

\* Faulty variant of _copyCells: the source position is taken from the source
\* slice as it was before MutablePixels resized the destination.
_copyCellsStalePosition(hp, dst, src, srcColumn, dstColumnBegin, dstColumnEnd) ==
    LET r == CopyRanges(hp[src], hp[dst], srcColumn, dstColumnBegin, dstColumnEnd)
        writes == r.dstWriteBegin < r.dstWriteEnd
        grown == [hp EXCEPT ![dst] =
                     MutablePixels(hp[dst], r.dstWriteBegin, r.dstWriteEnd)]
        dstOffset == Pixels(grown[dst], r.dstWriteBegin)
        srcOffset == Pixels(hp[src], r.srcUsedBegin)
        count == (r.dstWriteEnd - r.dstWriteBegin) * grown[dst].cellSize.width
        written == IF writes
                   THEN MoveScanlines(grown, dst, src, dstOffset, srcOffset, count, 0)
                   ELSE hp
        before == IF r.dstUsedBegin < r.dstWriteBegin
                  THEN _eraseCells(written[dst], r.dstUsedBegin, r.dstWriteBegin).slice
                  ELSE written[dst]
        after == IF r.dstUsedEnd > r.dstWriteEnd
                 THEN _eraseCells(before, r.dstWriteEnd, r.dstUsedEnd).slice
                 ELSE before
    IN  [heap |-> [written EXCEPT ![dst] = after],
         erased |-> CopyCellsResult(after),
         overrun |-> writes /\ GrowthOverruns(hp[dst], r.dstWriteBegin, r.dstWriteEnd)]

\* ImageSlice::_copyCells(srcSlice, srcColumn, dstColumnBegin, dstColumnEnd)
\* on the slice at address dst, the source slice being the one at address src:
\* the heap after the call, the value returned, and whether a buffer was
\* overrun on the way.
_copyCells(hp, dst, src, srcColumn, dstColumnBegin, dstColumnEnd) ==
    LET r == CopyRanges(hp[src], hp[dst], srcColumn, dstColumnBegin, dstColumnEnd)
        writes == r.dstWriteBegin < r.dstWriteEnd
        grown == [hp EXCEPT ![dst] =
                     MutablePixels(hp[dst], r.dstWriteBegin, r.dstWriteEnd)]
        dstOffset == Pixels(grown[dst], r.dstWriteBegin)
        srcOffset == Pixels(grown[src], r.srcUsedBegin)
        count == (r.dstWriteEnd - r.dstWriteBegin) * grown[dst].cellSize.width
        written == IF writes
                   THEN MoveScanlines(grown, dst, src, dstOffset, srcOffset, count, 0)
                   ELSE hp
        before == IF r.dstUsedBegin < r.dstWriteBegin
                  THEN _eraseCells(written[dst], r.dstUsedBegin, r.dstWriteBegin).slice
                  ELSE written[dst]
        after == IF r.dstUsedEnd > r.dstWriteEnd
                 THEN _eraseCells(before, r.dstWriteEnd, r.dstUsedEnd).slice
                 ELSE before
    IN  [heap |-> [written EXCEPT ![dst] = after],
         erased |-> CopyCellsResult(after),
         overrun |-> /\ writes
                     /\ \/ GrowthOverruns(hp[dst], r.dstWriteBegin, r.dstWriteEnd)
                        \/ MoveOverruns(grown, dst, src, dstOffset, srcOffset, count)]

\* ------------------------------------------------------- rows and blocks
\* Faulty variant of Scale: only a DoubleWidth row doubles its columns.
ScaleDoubleWidthOnly(lineRendition) == IF lineRendition = "DoubleWidth" THEN 1 ELSE 0

\* srcRow.GetLineRendition() != LineRendition::SingleWidth ? 1 : 0
Scale(lineRendition) == IF lineRendition # "SingleWidth" THEN 1 ELSE 0

\* Faulty variant of ShiftLeft: the column is passed on as it is.
ShiftLeftByNothing(x, scale) == x

\* x << scale
ShiftLeft(x, scale) == x * (2 ^ scale)

\* Faulty variant of ResetSlice: the row keeps the slice it owned.
ResetSliceLeavingSlice(buf, hp, row) ==
    [buffer |-> buf, heap |-> hp, overrun |-> FALSE]

\* `imageSlice = nullptr` on the unique_ptr of a row: the slice it owned is
\* destroyed.
ResetSlice(buf, hp, row) ==
    [buffer |-> [buf EXCEPT ![row].imageSlice = NullPtr],
     heap |-> IF buf[row].imageSlice = NullPtr THEN hp
              ELSE [hp EXCEPT ![buf[row].imageSlice] = Released],
     overrun |-> FALSE]

\* ImageSlice::EraseCells(row, columnBegin, columnEnd)
EraseCells(buf, hp, row, columnBegin, columnEnd) ==
    LET imageSlice == buf[row].imageSlice
    IN  IF imageSlice # NullPtr
        THEN LET scale == Scale(buf[row].lineRendition)
                 r == _eraseCells(hp[imageSlice], ShiftLeft(columnBegin, scale),
                                  ShiftLeft(columnEnd, scale))
             IN  IF r.erased THEN ResetSlice(buf, hp, row)
                 ELSE [buffer |-> buf,
                       heap |-> [hp EXCEPT ![imageSlice] = r.slice],
                       overrun |-> FALSE]
        ELSE [buffer |-> buf, heap |-> hp, overrun |-> FALSE]

\* Faulty variant of CopyDegradesToErase: the renditions are not compared.
CopyDegradesWithoutSource(buf, srcRow, dstRow) ==
    buf[srcRow].imageSlice = NullPtr

\* The test that sends CopyCells to the erase: no source slice, or the two
\* rows differ in LineRendition.
CopyDegradesToErase(buf, srcRow, dstRow) ==
    \/ buf[srcRow].imageSlice = NullPtr
    \/ buf[srcRow].lineRendition # buf[dstRow].lineRendition

\* Faulty variant of DropIfErased: the value _copyCells returned is ignored.
KeepDestination(buf, dstRow, dstSlice, r) ==
    [buffer |-> [buf EXCEPT ![dstRow].imageSlice = dstSlice],
     heap |-> r.heap,
     overrun |-> r.overrun]

\* What CopyCells does with the value _copyCells returned.
DropIfErased(buf, dstRow, dstSlice, r) ==
    IF r.erased
    THEN [buffer |-> [buf EXCEPT ![dstRow].imageSlice = NullPtr],
          heap |-> [r.heap EXCEPT ![dstSlice] = Released],
          overrun |-> r.overrun]
    ELSE [buffer |-> [buf EXCEPT ![dstRow].imageSlice = dstSlice],
          heap |-> r.heap,
          overrun |-> r.overrun]

\* Faulty variant of CopyCells: the destination slice is created before the test
\* for the erase.
CopyCellsCreatingFirst(buf, hp, srcRow, srcColumn, dstRow, dstColumnBegin, dstColumnEnd) ==
    LET created == buf[dstRow].imageSlice = NullPtr
        dstSlice == IF created THEN Alloc(dstRow) ELSE buf[dstRow].imageSlice
        buf0 == [buf EXCEPT ![dstRow].imageSlice = dstSlice]
        size == IF buf[srcRow].imageSlice = NullPtr THEN [width |-> 1, height |-> 1]
                ELSE hp[buf[srcRow].imageSlice].cellSize
        hp0 == IF created THEN [hp EXCEPT ![dstSlice] = ImageSlice(size)] ELSE hp
        scale == Scale(buf[srcRow].lineRendition)
    IN  IF CopyDegradesToErase(buf, srcRow, dstRow)
        THEN EraseCells(buf0, hp0, dstRow, dstColumnBegin, dstColumnEnd)
        ELSE DropIfErased(buf, dstRow, dstSlice,
                          _copyCells(hp0, dstSlice, buf[srcRow].imageSlice,
                                     ShiftLeft(srcColumn, scale),
                                     ShiftLeft(dstColumnBegin, scale),
                                     ShiftLeft(dstColumnEnd, scale)))

\* Faulty variant of CopyCells: a destination slice is created with the cell
\* size CellWidth x CellHeight, whatever the source's.
CopyCellsCreatingDefault(buf, hp, srcRow, srcColumn, dstRow, dstColumnBegin, dstColumnEnd) ==
    IF CopyDegradesToErase(buf, srcRow, dstRow)
    THEN EraseCells(buf, hp, dstRow, dstColumnBegin, dstColumnEnd)
    ELSE LET srcSlice == buf[srcRow].imageSlice
             created == buf[dstRow].imageSlice = NullPtr
             dstSlice == IF created THEN Alloc(dstRow) ELSE buf[dstRow].imageSlice
             hp0 == IF created
                    THEN [hp EXCEPT ![dstSlice] =
                             ImageSlice([width |-> CellWidth, height |-> CellHeight])]
                    ELSE hp
             scale == Scale(buf[srcRow].lineRendition)
         IN  DropIfErased(buf, dstRow, dstSlice,
                          _copyCells(hp0, dstSlice, srcSlice,
                                     ShiftLeft(srcColumn, scale),
                                     ShiftLeft(dstColumnBegin, scale),
                                     ShiftLeft(dstColumnEnd, scale)))

\* ImageSlice::CopyCells(srcRow, srcColumn, dstRow, dstColumnBegin, dstColumnEnd)
CopyCells(buf, hp, srcRow, srcColumn, dstRow, dstColumnBegin, dstColumnEnd) ==
    IF CopyDegradesToErase(buf, srcRow, dstRow)
    THEN EraseCells(buf, hp, dstRow, dstColumnBegin, dstColumnEnd)
    ELSE LET srcSlice == buf[srcRow].imageSlice
             created == buf[dstRow].imageSlice = NullPtr
             dstSlice == IF created THEN Alloc(dstRow) ELSE buf[dstRow].imageSlice
             hp0 == IF created
                    THEN [hp EXCEPT ![dstSlice] = ImageSlice(hp[srcSlice].cellSize)]
                    ELSE hp
             scale == Scale(buf[srcRow].lineRendition)
         IN  DropIfErased(buf, dstRow, dstSlice,
                          _copyCells(hp0, dstSlice, srcSlice,
                                     ShiftLeft(srcColumn, scale),
                                     ShiftLeft(dstColumnBegin, scale),
                                     ShiftLeft(dstColumnEnd, scale)))

\* Faulty variant of CopyRow: the destination takes the source's pointer, not a copy
\* of the slice.
CopyRowSharing(buf, hp, srcRow, dstRow) ==
    [buffer |-> [buf EXCEPT ![dstRow].imageSlice = buf[srcRow].imageSlice],
     heap |-> hp,
     overrun |-> FALSE]

\* ImageSlice::CopyRow(srcRow, dstRow): the destination's unique_ptr takes a
\* newly allocated copy of the source's slice, or nullptr.
CopyRow(buf, hp, srcRow, dstRow) ==
    LET srcSlice == buf[srcRow].imageSlice
    IN  IF srcSlice # NullPtr
        THEN [buffer |-> [buf EXCEPT ![dstRow].imageSlice = Alloc(dstRow)],
              heap |-> [hp EXCEPT ![Alloc(dstRow)] = hp[srcSlice]],
              overrun |-> FALSE]
        ELSE ResetSlice(buf, hp, dstRow)

\* til::rect
Rect(left, top, right, bottom) ==
    [left |-> left, top |-> top, right |-> right, bottom |-> bottom]

\* til::rect::height()
Height(rect) == rect.bottom - rect.top

\* Faulty variant of CopyBlockOrder: the rows are always visited top to bottom.
CopyBlockOrderAscending(srcRect, dstRect) ==
    [i \in 1 .. Max(Height(srcRect), 0) |-> i - 1]

\* Faulty variant of CopyBlockOrder: the rows are always visited bottom to top.
CopyBlockOrderDescending(srcRect, dstRect) ==
    [i \in 1 .. Max(Height(srcRect), 0) |-> Height(srcRect) - i]

\* Faulty variant of CopyBlockOrder: the number of rows is the smaller of the two
\* rectangles' heights.
CopyBlockOrderWithinDestination(srcRect, dstRect) ==
    LET height == Min(Height(srcRect), Height(dstRect))
    IN  IF height <= 0 THEN <<>>
        ELSE IF srcRect.top < dstRect.top
             THEN [i \in 1 .. height |-> height - i]
             ELSE [i \in 1 .. height |-> i - 1]

\* The row offsets y of CopyBlock in the order its loops visit them:
\* srcRect.height() - 1 down to 0 when srcRect.top < dstRect.top, and
\* 0 up to srcRect.height() - 1 otherwise.
CopyBlockOrder(srcRect, dstRect) ==
    LET height == Height(srcRect)
    IN  IF height <= 0 THEN <<>>
        ELSE IF srcRect.top < dstRect.top
             THEN [i \in 1 .. height |-> height - i]
             ELSE [i \in 1 .. height |-> i - 1]

\* Faulty variant of CopyBlockRows: a row copied from is erased over the
\* source columns afterwards, as a move would do.
RECURSIVE CopyBlockRowsMoving(_, _, _, _)
CopyBlockRowsMoving(st, srcRect, dstRect, order) ==
    IF order = <<>> THEN st
    ELSE LET y == Head(order)
             r == CopyCells(st.buffer, st.heap, srcRect.top + y, srcRect.left,
                            dstRect.top + y, dstRect.left, dstRect.right)
             e == IF srcRect.top = dstRect.top THEN r
                  ELSE EraseCells(r.buffer, r.heap, srcRect.top + y,
                                  srcRect.left, srcRect.right)
         IN  CopyBlockRowsMoving([e EXCEPT !.overrun = st.overrun \/ r.overrun],
                                 srcRect, dstRect, Tail(order))

\* The loop body of CopyBlock run over the offsets of `order`, in order.
RECURSIVE CopyBlockRows(_, _, _, _)
CopyBlockRows(st, srcRect, dstRect, order) ==
    IF order = <<>> THEN st
    ELSE LET y == Head(order)
             r == CopyCells(st.buffer, st.heap, srcRect.top + y, srcRect.left,
                            dstRect.top + y, dstRect.left, dstRect.right)
         IN  CopyBlockRows([r EXCEPT !.overrun = st.overrun \/ r.overrun],
                           srcRect, dstRect, Tail(order))

\* ImageSlice::CopyBlock(srcBuffer, srcRect, dstBuffer, dstRect), both buffers
\* being the one text buffer.
CopyBlock(buf, hp, srcRect, dstRect) ==
    CopyBlockRows([buffer |-> buf, heap |-> hp, overrun |-> FALSE],
                  srcRect, dstRect, CopyBlockOrder(srcRect, dstRect))

\* The loop of EraseBlock from row y on.
RECURSIVE EraseBlockRows(_, _, _)
EraseBlockRows(st, rect, y) ==
    IF y >= rect.bottom THEN st
    ELSE EraseBlockRows(EraseCells(st.buffer, st.heap, y, rect.left, rect.right),
                        rect, y + 1)

\* Faulty variant of EraseBlock: only the first row of the rectangle is erased.
EraseBlockFirstRow(buf, hp, rect) ==
    IF rect.top < rect.bottom
    THEN EraseCells(buf, hp, rect.top, rect.left, rect.right)
    ELSE [buffer |-> buf, heap |-> hp, overrun |-> FALSE]

\* ImageSlice::EraseBlock(buffer, rect)
EraseBlock(buf, hp, rect) ==
    EraseBlockRows([buffer |-> buf, heap |-> hp, overrun |-> FALSE], rect, rect.top)

\* ------------------------------------------------------------ pixel writes
\* The pixel a writer puts at scanline y, pixel x of slice column `column` of
\* row `row`: never zero, and different for every position, so that a pixel
\* read later tells where it was written.
Stamp(row, column, x, y) == 1 + y + 10 * x + 100 * column + 1000 * row

\* A caller of MutablePixels (the image parser) up to the call's return: it
\* gives a row without a slice a new ImageSlice of cell size `size` and asks
\* for [columnBegin, columnEnd).
ReservePixels(buf, hp, size, row, columnBegin, columnEnd) ==
    LET created == buf[row].imageSlice = NullPtr
        address == IF created THEN Alloc(row) ELSE buf[row].imageSlice
        before == IF created THEN ImageSlice(size) ELSE hp[address]
    IN  [buffer |-> [buf EXCEPT ![row].imageSlice = address],
         heap |-> [hp EXCEPT ![address] = MutablePixels(before, columnBegin, columnEnd)],
         overrun |-> GrowthOverruns(before, columnBegin, columnEnd)]

\* The caller then writes cellSize.height scanlines of (columnEnd -
\* columnBegin) * cellSize.width pixels from the position MutablePixels
\* returned, stepping by pixelWidth.
WritePixels(buf, hp, size, row, columnBegin, columnEnd) ==
    LET r == ReservePixels(buf, hp, size, row, columnBegin, columnEnd)
        address == r.buffer[row].imageSlice
        slice == r.heap[address]
        before == IF buf[row].imageSlice = NullPtr THEN ImageSlice(size) ELSE hp[address]
        pixelOffset == ReturnedPosition(before, columnBegin, columnEnd)
        length == (columnEnd - columnBegin) * slice.cellSize.width
        Written(p) == \E y \in 0 .. (slice.cellSize.height - 1) :
                          /\ pixelOffset + y * slice.pixelWidth <= p
                          /\ p < pixelOffset + y * slice.pixelWidth + length
        Value(p) == LET y == p \div slice.pixelWidth
                        px == (p % slice.pixelWidth) - pixelOffset
                    IN  Stamp(row, columnBegin + (px \div slice.cellSize.width),
                              px % slice.cellSize.width, y)
    IN  [r EXCEPT !.heap[address].pixelBuffer =
            [k \in 1 .. Len(slice.pixelBuffer) |->
                IF Written(k - 1) THEN Value(k - 1) ELSE slice.pixelBuffer[k]]]

\* ------------------------------------------------------------------ state
VARIABLES
    buffer,     \* the TextBuffer: row offset -> [lineRendition, imageSlice]
    heap,       \* address -> the ImageSlice stored there
    cellSize,   \* the cell size new images are written with
    process,    \* "running"; "damaged" once a write has overrun a buffer; "crashed"
    steps,      \* the number of calls made so far
    last        \* the call under observation, with the state it was made in

vars == <<buffer, heap, cellSize, process, steps, last>>

NoCall == [op |-> "none"]

CellSize == [width |-> CellWidth, height |-> CellHeight]

RowOffsets == DOMAIN buffer

\* A text buffer of `rows` rows after construction: every row has a
\* rendition and no slice.
Constructed(rows, renditions) ==
    /\ buffer \in [0 .. (rows - 1) -> [lineRendition : renditions, imageSlice : {NullPtr}]]
    /\ heap = [a \in {Alloc(r) : r \in 0 .. (rows - 1)} |-> Released]
    /\ process = "running"
    /\ steps = 0
    /\ last = NoCall

Init ==
    /\ Constructed(NumRows, LineRenditions)
    /\ cellSize = CellSize

\* A call may be made while the process runs, no call is under observation
\* and the bound on the number of calls is not reached.
CanCall ==
    /\ process # "crashed"
    /\ last = NoCall
    /\ steps < MaxSteps

\* The call returns with result r.  It is either put under observation
\* (with the state it was made in) or not.  A call that overran a buffer
\* leaves the process damaged, or ends it on the spot.
Return(call, r) ==
    \/ /\ buffer' = r.buffer
       /\ heap' = r.heap
       /\ process' = IF r.overrun THEN "damaged" ELSE process
       /\ steps' = steps + 1
       /\ \/ last' = NoCall
          \/ last' = [op |-> call.op, args |-> call,
                      buffer |-> buffer, heap |-> heap]
       /\ UNCHANGED cellSize
    \/ /\ r.overrun
       /\ process' = "crashed"
       /\ UNCHANGED <<buffer, heap, cellSize, steps, last>>

WriteIn(columns) ==
    /\ CanCall
    /\ \E row \in RowOffsets, columnBegin, columnEnd \in columns :
          /\ columnBegin < columnEnd
          /\ Return([op |-> "MutablePixels", row |-> row,
                     columnBegin |-> columnBegin, columnEnd |-> columnEnd],
                    WritePixels(buffer, heap, cellSize, row, columnBegin, columnEnd))

Write == WriteIn(Columns)

DoEraseCells ==
    /\ CanCall
    /\ \E row \in RowOffsets, columnBegin, columnEnd \in Columns :
          Return([op |-> "EraseCells", row |-> row,
                  columnBegin |-> columnBegin, columnEnd |-> columnEnd],
                 EraseCells(buffer, heap, row, columnBegin, columnEnd))

DoCopyCells ==
    /\ CanCall
    /\ \E srcRow, dstRow \in RowOffsets, srcColumn, dstColumnBegin, dstColumnEnd \in Columns :
          Return([op |-> "CopyCells", srcRow |-> srcRow, srcColumn |-> srcColumn,
                  dstRow |-> dstRow, dstColumnBegin |-> dstColumnBegin,
                  dstColumnEnd |-> dstColumnEnd],
                 CopyCells(buffer, heap, srcRow, srcColumn, dstRow,
                           dstColumnBegin, dstColumnEnd))

DoCopyRow ==
    /\ CanCall
    /\ \E srcRow, dstRow \in RowOffsets :
          Return([op |-> "CopyRow", srcRow |-> srcRow, dstRow |-> dstRow],
                 CopyRow(buffer, heap, srcRow, dstRow))

\* A damaged heap may end the process at any later allocation or release.
Abort ==
    /\ process = "damaged"
    /\ process' = "crashed"
    /\ UNCHANGED <<buffer, heap, cellSize, steps, last>>

Next ==
    \/ Write
    \/ DoEraseCells
    \/ DoCopyCells
    \/ DoCopyRow
    \/ Abort

Spec == Init /\ [][Next]_vars

\* ------------------------------------------------------ block-level calls
\* The rectangles a block call is made with: the rows lie inside the buffer.
\* srcRect and dstRect have the same size, as the callers pass them.
BlockRenditions == {"SingleWidth", "DoubleWidth"}

InitBlock ==
    /\ Constructed(NumBlockRows, BlockRenditions)
    /\ cellSize = CellSize

DoCopyBlock ==
    /\ CanCall
    /\ \E srcTop, dstTop \in RowOffsets, height \in 0 .. NumBlockRows,
          srcLeft, dstLeft, dstRight \in BlockColumns :
          /\ srcTop + height <= NumBlockRows
          /\ dstTop + height <= NumBlockRows
          /\ dstLeft <= dstRight
          /\ LET srcRect == Rect(srcLeft, srcTop, srcLeft + dstRight - dstLeft,
                                 srcTop + height)
                 dstRect == Rect(dstLeft, dstTop, dstRight, dstTop + height)
             IN  Return([op |-> "CopyBlock", srcRect |-> srcRect, dstRect |-> dstRect],
                        CopyBlock(buffer, heap, srcRect, dstRect))

DoEraseBlock ==
    /\ CanCall
    /\ \E top, bottom \in 0 .. NumBlockRows, left, right \in BlockColumns :
          /\ left <= right
          /\ Return([op |-> "EraseBlock", rect |-> Rect(left, top, right, bottom)],
                    EraseBlock(buffer, heap, Rect(left, top, right, bottom)))

WriteBlock == WriteIn(BlockColumns)

NextBlock ==
    \/ WriteBlock
    \/ DoCopyBlock
    \/ DoEraseBlock
    \/ DoCopyRow
    \/ Abort

SpecBlock == InitBlock /\ [][NextBlock]_vars

\* ------------------------------------------- one slice, growing
\* The cell sizes a slice is grown with.
MaxCellWidth == 5
MaxCellHeight == 2

CellSizes == [width : 1 .. MaxCellWidth, height : 1 .. MaxCellHeight]

InitGrow ==
    /\ Constructed(1, {"SingleWidth"})
    /\ cellSize \in CellSizes

\* A MutablePixels call on the slice of row 0 returns with result r.  Every
\* call is observed; the observation also keeps the smallest range that
\* contains every range requested so far and the columns written so far.
ReturnGrow(columnBegin, columnEnd, wrote, r) ==
    \/ /\ buffer' = r.buffer
       /\ heap' = r.heap
       /\ process' = IF r.overrun THEN "damaged" ELSE process
       /\ last' = [op |-> "MutablePixels",
                   args |-> [row |-> 0, columnBegin |-> columnBegin,
                             columnEnd |-> columnEnd, wrote |-> wrote],
                   buffer |-> buffer, heap |-> heap,
                   calls |-> IF last = NoCall THEN 1 ELSE Min(last.calls + 1, 2),
                   requestedBegin |-> IF last = NoCall THEN columnBegin
                                      ELSE Min(last.requestedBegin, columnBegin),
                   requestedEnd |-> IF last = NoCall THEN columnEnd
                                    ELSE Max(last.requestedEnd, columnEnd),
                   written |-> (IF last = NoCall THEN {} ELSE last.written)
                                 \cup (IF wrote THEN columnBegin .. (columnEnd - 1)
                                       ELSE {})]
       /\ UNCHANGED <<cellSize, steps>>
    \/ /\ r.overrun
       /\ process' = "crashed"
       /\ UNCHANGED <<buffer, heap, cellSize, steps, last>>

\* MutablePixels(columnBegin, columnEnd), the caller writing nothing.
GrowReserve ==
    /\ process # "crashed"
    /\ \E columnBegin, columnEnd \in Columns :
          /\ columnBegin < columnEnd
          /\ ReturnGrow(columnBegin, columnEnd, FALSE,
                        ReservePixels(buffer, heap, cellSize, 0, columnBegin, columnEnd))

\* MutablePixels(columnBegin, columnEnd), the caller writing the range.
GrowWrite ==
    /\ process # "crashed"
    /\ \E columnBegin, columnEnd \in Columns :
          /\ columnBegin < columnEnd
          /\ ReturnGrow(columnBegin, columnEnd, TRUE,
                        WritePixels(buffer, heap, cellSize, 0, columnBegin, columnEnd))

NextGrow ==
    \/ GrowReserve
    \/ GrowWrite
    \/ Abort

SpecGrow == InitGrow /\ [][NextGrow]_vars

\* ------------------------------------- images of several cell sizes
\* The cell sizes images are written with while the font changes.
SizesInUse == [width : {CellWidth - 1, CellWidth}, height : {CellHeight - 1, CellHeight}]

InitSizes ==
    /\ Constructed(NumRows, {"SingleWidth"})
    /\ cellSize \in SizesInUse

\* The cell size changes between two calls (a change of font): images
\* written from now on have the new size, the slices there are keep theirs.
ChangeCellSize ==
    /\ process # "crashed"
    /\ last = NoCall
    /\ \E size \in SizesInUse \ {cellSize} : cellSize' = size
    /\ UNCHANGED <<buffer, heap, process, steps, last>>

NextSizes ==
    \/ Write
    \/ ChangeCellSize
    \/ DoEraseCells
    \/ DoCopyCells
    \/ DoCopyRow
    \/ Abort

SpecSizes == InitSizes /\ [][NextSizes]_vars

\* ------------------------------------------------- what a row shows
\* The cellSize.width * cellSize.height pixels of slice column `column` of a
\* row, scanline by scanline: all zero where the row holds no slice or the
\* slice does not cover the column.
ColumnPixels(buf, hp, row, column) ==
    LET address == buf[row].imageSlice
        slice == hp[address]
        size == IF address = NullPtr THEN cellSize ELSE slice.cellSize
    IN  [i \in 1 .. (size.width * size.height) |->
            IF \/ address = NullPtr
               \/ column < slice.columnBegin
               \/ column >= slice.columnEnd
            THEN 0
            ELSE slice.pixelBuffer[Pixels(slice, column)
                                   + ((i - 1) \div size.width) * slice.pixelWidth
                                   + ((i - 1) % size.width) + 1]]

Transparent == [i \in 1 .. (cellSize.width * cellSize.height) |-> 0]

\* The image state of a row: no slice, or the slice its unique_ptr owns.
RowImage(buf, hp, row) ==
    IF buf[row].imageSlice = NullPtr THEN <<>> ELSE <<hp[buf[row].imageSlice]>>

HasSlice(buf, row) == buf[row].imageSlice # NullPtr

SliceOf(buf, hp, row) == hp[buf[row].imageSlice]

\* Every slice column a slice of the model can cover.
AllColumns == 0 .. (2 * MaxColumn + 1)

Observed(op) == last.op = op

\* ----------------------------------------------------------------- claims

\* C1: CopyCells between rows of one LineRendition, the source row holding a
\* slice: every column c of the scaled destination range reads afterwards as
\* the source read at column srcColumn + (c - dstColumnBegin) before the call
\* (all zero where the source did not cover that column), so nothing of the
\* destination's previous content survives inside the range.
C1_CopyCellsReplacesRange ==
    Observed("CopyCells") =>
        LET a == last.args
            scale == Scale(last.buffer[a.srcRow].lineRendition)
            dstBegin == ShiftLeft(a.dstColumnBegin, scale)
            dstEnd == ShiftLeft(a.dstColumnEnd, scale)
            srcBegin == ShiftLeft(a.srcColumn, scale)
        IN  ~CopyDegradesToErase(last.buffer, a.srcRow, a.dstRow) =>
                \A c \in AllColumns :
                    (dstBegin <= c /\ c < dstEnd) =>
                        ColumnPixels(buffer, heap, a.dstRow, c)
                          = ColumnPixels(last.buffer, last.heap, a.srcRow,
                                         srcBegin + (c - dstBegin))

\* C3: EraseCells over a (scaled) range that contains the whole covered
\* range of the row's slice leaves the row without a slice.
ErasedRange(buf, a) ==
    LET scale == Scale(buf[a.row].lineRendition)
    IN  [begin |-> ShiftLeft(a.columnBegin, scale),
         end |-> ShiftLeft(a.columnEnd, scale)]

ContainsCovered(range, slice) ==
    range.begin <= slice.columnBegin /\ range.end >= slice.columnEnd

C3_FullEraseDropsSlice ==
    (/\ Observed("EraseCells")
     /\ HasSlice(last.buffer, last.args.row)
     /\ ContainsCovered(ErasedRange(last.buffer, last.args),
                        SliceOf(last.buffer, last.heap, last.args.row)))
        => ~HasSlice(buffer, last.args.row)

C3_Witness ==
    /\ Observed("EraseCells")
    /\ HasSlice(last.buffer, last.args.row)
    /\ ContainsCovered(ErasedRange(last.buffer, last.args),
                       SliceOf(last.buffer, last.heap, last.args.row))
    /\ last.buffer[last.args.row].lineRendition = "DoubleWidth"
    /\ ~HasSlice(buffer, last.args.row)

\* C4: EraseCells over a range that does not contain the covered range
\* zero-fills the pixel columns of the range's intersection with the covered
\* range on every scanline and nothing else: every other pixel (padding
\* included) keeps its value, and the slice stays on the row with its
\* covered range, stride and buffer size.
C4_PartialEraseZeroFills ==
    (/\ Observed("EraseCells")
     /\ HasSlice(last.buffer, last.args.row)
     /\ ~ContainsCovered(ErasedRange(last.buffer, last.args),
                         SliceOf(last.buffer, last.heap, last.args.row)))
        => LET old == SliceOf(last.buffer, last.heap, last.args.row)
               new == SliceOf(buffer, heap, last.args.row)
               range == ErasedRange(last.buffer, last.args)
               ColumnAt(k) == old.columnBegin
                                + ((k - 1) % old.pixelWidth) \div old.cellSize.width
               InRange(k) == /\ range.begin <= ColumnAt(k)
                             /\ ColumnAt(k) < range.end
                             /\ ColumnAt(k) < old.columnEnd
           IN  /\ HasSlice(buffer, last.args.row)
               /\ new.columnBegin = old.columnBegin
               /\ new.columnEnd = old.columnEnd
               /\ new.pixelWidth = old.pixelWidth
               /\ new.cellSize = old.cellSize
               /\ Len(new.pixelBuffer) = Len(old.pixelBuffer)
               /\ \A k \in 1 .. Len(old.pixelBuffer) :
                     new.pixelBuffer[k] = IF InRange(k) THEN 0 ELSE old.pixelBuffer[k]

C4_Witness ==
    /\ Observed("EraseCells")
    /\ HasSlice(last.buffer, last.args.row)
    /\ HasSlice(buffer, last.args.row)
    /\ LET old == SliceOf(last.buffer, last.heap, last.args.row)
           new == SliceOf(buffer, heap, last.args.row)
           range == ErasedRange(last.buffer, last.args)
       IN  /\ old.columnBegin < range.begin
           /\ range.begin < range.end
           /\ range.end < old.columnEnd
           /\ \A c \in old.columnBegin .. (old.columnEnd - 1) :
                 /\ ColumnPixels(last.buffer, last.heap, last.args.row, c) # Transparent
                 /\ (ColumnPixels(buffer, heap, last.args.row, c) = Transparent)
                      <=> (range.begin <= c /\ c < range.end)

\* CopyCells between a SingleWidth row and a DoubleWidth row, in either
\* direction, the source row holding a slice.
MixedWidthCopy ==
    /\ Observed("CopyCells")
    /\ HasSlice(last.buffer, last.args.srcRow)
    /\ {last.buffer[last.args.srcRow].lineRendition,
        last.buffer[last.args.dstRow].lineRendition} = {"SingleWidth", "DoubleWidth"}

\* The destination range of the observed CopyCells in slice columns of the
\* destination row.
ScaledDstRange ==
    LET scale == Scale(last.buffer[last.args.dstRow].lineRendition)
    IN  [begin |-> ShiftLeft(last.args.dstColumnBegin, scale),
         end |-> ShiftLeft(last.args.dstColumnEnd, scale)]

\* The requested source range of the observed CopyCells in slice columns of
\* the source row.
ScaledSrcRange ==
    LET scale == Scale(last.buffer[last.args.srcRow].lineRendition)
    IN  [begin |-> ShiftLeft(last.args.srcColumn, scale),
         end |-> ShiftLeft(last.args.srcColumn + last.args.dstColumnEnd
                             - last.args.dstColumnBegin, scale)]

\* C7, as claimed: CopyCells between a SingleWidth row and a DoubleWidth row
\* copies the image content: where the requested source range holds pixels,
\* the destination shows pixels inside its scaled range afterwards.
C7_MixedWidthCopies ==
    (/\ MixedWidthCopy
     /\ \E c \in AllColumns :
           /\ ScaledSrcRange.begin <= c /\ c < ScaledSrcRange.end
           /\ ColumnPixels(last.buffer, last.heap, last.args.srcRow, c) # Transparent)
        => \E c \in AllColumns :
              /\ ScaledDstRange.begin <= c /\ c < ScaledDstRange.end
              /\ ColumnPixels(buffer, heap, last.args.dstRow, c) # Transparent

\* C7, amended: CopyCells between a SingleWidth row and a DoubleWidth row
\* copies no image content.  The destination range, doubled when the
\* destination row is DoubleWidth, reads all zero afterwards, and every
\* other column of the destination reads as before.
C7_MixedWidthErases ==
    MixedWidthCopy =>
        \A c \in AllColumns :
            ColumnPixels(buffer, heap, last.args.dstRow, c)
              = IF ScaledDstRange.begin <= c /\ c < ScaledDstRange.end
                THEN Transparent
                ELSE ColumnPixels(last.buffer, last.heap, last.args.dstRow, c)

C7_Witness ==
    /\ MixedWidthCopy
    /\ last.buffer[last.args.dstRow].lineRendition = "DoubleWidth"
    /\ HasSlice(buffer, last.args.dstRow)
    /\ \E c, d \in AllColumns :
          /\ ScaledSrcRange.begin <= c /\ c < ScaledSrcRange.end
          /\ ColumnPixels(last.buffer, last.heap, last.args.srcRow, c) # Transparent
          /\ ScaledDstRange.begin <= d /\ d < ScaledDstRange.end
          /\ ColumnPixels(last.buffer, last.heap, last.args.dstRow, d) # Transparent
          /\ ColumnPixels(buffer, heap, last.args.dstRow, d) = Transparent

\* C8: a CopyCells whose source row has no slice, or whose rows differ in
\* LineRendition, leaves the text buffer as EraseCells(dstRow,
\* dstColumnBegin, dstColumnEnd) made in the same state leaves it.
C8_DegradedCopyIsErase ==
    (/\ Observed("CopyCells")
     /\ CopyDegradesToErase(last.buffer, last.args.srcRow, last.args.dstRow))
        => LET erase == EraseCells(last.buffer, last.heap, last.args.dstRow,
                                   last.args.dstColumnBegin, last.args.dstColumnEnd)
           IN  /\ buffer = erase.buffer
               /\ heap = erase.heap

C8_Witness ==
    /\ Observed("CopyCells")
    /\ last.buffer[last.args.srcRow].lineRendition = "DoubleWidth"
    /\ last.buffer[last.args.dstRow].lineRendition = "DoubleHeightTop"
    /\ HasSlice(last.buffer, last.args.srcRow)
    /\ HasSlice(last.buffer, last.args.dstRow)
    /\ HasSlice(buffer, last.args.dstRow)
    /\ RowImage(buffer, heap, last.args.dstRow)
         # RowImage(last.buffer, last.heap, last.args.dstRow)

\* The row the observed call writes to.
Destination ==
    CASE Observed("MutablePixels") -> {last.args.row}
      [] Observed("EraseCells") -> {last.args.row}
      [] Observed("CopyCells") -> {last.args.dstRow}
      [] Observed("CopyRow") -> {last.args.dstRow}
      [] OTHER -> {}

\* C10: CopyRow leaves the destination with a copy of its own of the
\* source's slice (or with none when the source has none), whatever the
\* destination held; no two rows ever hold the same slice; and a write, an
\* erase or a copy changes the image of no row but the one it is made on.
C10_CopyRowDeepCopies ==
    /\ Observed("CopyRow") =>
          /\ RowImage(buffer, heap, last.args.dstRow)
               = RowImage(last.buffer, last.heap, last.args.srcRow)
          /\ RowImage(buffer, heap, last.args.srcRow)
               = RowImage(last.buffer, last.heap, last.args.srcRow)
    /\ \A r1, r2 \in RowOffsets :
          (r1 # r2 /\ HasSlice(buffer, r1)) =>
              buffer[r1].imageSlice # buffer[r2].imageSlice
    /\ last # NoCall =>
          \A r \in RowOffsets \ Destination :
              RowImage(buffer, heap, r) = RowImage(last.buffer, last.heap, r)

C10_Witness ==
    /\ Observed("CopyRow")
    /\ last.args.srcRow # last.args.dstRow
    /\ HasSlice(last.buffer, last.args.srcRow)
    /\ HasSlice(last.buffer, last.args.dstRow)
    /\ RowImage(last.buffer, last.heap, last.args.srcRow)
         # RowImage(last.buffer, last.heap, last.args.dstRow)
    /\ RowImage(buffer, heap, last.args.dstRow)
         = RowImage(last.buffer, last.heap, last.args.srcRow)

\* C5: after each of a sequence of MutablePixels calls on a slice, the
\* covered range is the smallest range that contains every range requested
\* so far, and pixelWidth is a multiple of 4.
C5_CoveredRangeIsHull ==
    last # NoCall =>
        /\ HasSlice(buffer, 0)
        /\ SliceOf(buffer, heap, 0).columnBegin = last.requestedBegin
        /\ SliceOf(buffer, heap, 0).columnEnd = last.requestedEnd
        /\ SliceOf(buffer, heap, 0).pixelWidth % 4 = 0
        /\ SliceOf(buffer, heap, 0).pixelWidth
             >= (last.requestedEnd - last.requestedBegin) * cellSize.width

C5_Witness ==
    /\ last # NoCall
    /\ last.calls = 2
    /\ HasSlice(last.buffer, 0)
    /\ last.args.columnEnd < SliceOf(last.buffer, last.heap, 0).columnBegin
    /\ SliceOf(buffer, heap, 0).columnBegin = last.args.columnBegin
    /\ SliceOf(buffer, heap, 0).columnEnd > last.args.columnEnd + 1
    /\ SliceOf(buffer, heap, 0).pixelWidth
         > (last.requestedEnd - last.requestedBegin) * cellSize.width

\* The observed MutablePixels call reallocated a buffer that held data.
Reallocated ==
    /\ last # NoCall
    /\ HasSlice(last.buffer, 0)
    /\ MustResize(SliceOf(last.buffer, last.heap, 0),
                  last.args.columnBegin, last.args.columnEnd)

\* The columns the caller wrote after the observed call.
JustWritten ==
    IF last.args.wrote THEN last.args.columnBegin .. (last.args.columnEnd - 1) ELSE {}

\* C6: a MutablePixels call that reallocates keeps every pixel of every
\* column of the old covered range at its column, on every scanline, and
\* every pixel of a column never written, and of the padding, reads zero.
C6_GrowthPreservesPixels ==
    last # NoCall =>
        LET new == SliceOf(buffer, heap, 0)
        IN  /\ Reallocated =>
                  \A c \in AllColumns \ JustWritten :
                      ColumnPixels(buffer, heap, 0, c)
                        = ColumnPixels(last.buffer, last.heap, 0, c)
            /\ \A c \in AllColumns \ last.written :
                  ColumnPixels(buffer, heap, 0, c) = Transparent
            /\ \A c \in last.written :
                  \A i \in 1 .. (cellSize.width * cellSize.height) :
                      ColumnPixels(buffer, heap, 0, c)[i]
                        = Stamp(0, c, (i - 1) % cellSize.width, (i - 1) \div cellSize.width)
            /\ \A k \in 1 .. Len(new.pixelBuffer) :
                  ((k - 1) % new.pixelWidth
                     >= (new.columnEnd - new.columnBegin) * new.cellSize.width)
                      => new.pixelBuffer[k] = 0

C6_Witness ==
    /\ Reallocated
    /\ process = "running"
    /\ cellSize.height > 1
    /\ ~last.args.wrote
    /\ LET old == SliceOf(last.buffer, last.heap, 0)
           new == SliceOf(buffer, heap, 0)
       IN  /\ new.columnBegin < old.columnBegin
           /\ new.columnEnd > old.columnEnd
           /\ new.pixelWidth > (new.columnEnd - new.columnBegin) * new.cellSize.width
           /\ \A c \in old.columnBegin .. (old.columnEnd - 1) :
                 ColumnPixels(buffer, heap, 0, c) # Transparent

\* The text buffer with an independent temporary buffer under it: row
\* n + r of the result is a copy of row r with a slice of its own, as CopyRow
\* makes it (n being the number of rows).
WithSnapshot(buf, hp) ==
    LET n == Cardinality(DOMAIN buf)
        Source(r) == r - n
    IN  [buffer |-> [r \in 0 .. (2 * n - 1) |->
                        IF r < n THEN buf[r]
                        ELSE [lineRendition |-> buf[Source(r)].lineRendition,
                              imageSlice |-> IF HasSlice(buf, Source(r))
                                             THEN Alloc(r) ELSE NullPtr]],
         heap |-> [a \in {Alloc(r) : r \in 0 .. (2 * n - 1)} |->
                      IF a \in DOMAIN hp THEN hp[a]
                      ELSE LET r == CHOOSE r \in n .. (2 * n - 1) : Alloc(r) = a
                           IN  IF HasSlice(buf, Source(r))
                               THEN SliceOf(buf, hp, Source(r)) ELSE Released]]

\* CopyBlock(srcRect, dstRect) with the source rows taken from the temporary
\* buffer instead.
CopyBlockViaSnapshot(buf, hp, srcRect, dstRect) ==
    LET n == Cardinality(DOMAIN buf)
        snapshot == WithSnapshot(buf, hp)
    IN  CopyBlock(snapshot.buffer, snapshot.heap,
                  Rect(srcRect.left, srcRect.top + n, srcRect.right, srcRect.bottom + n),
                  dstRect)

\* C2: a CopyBlock inside one text buffer whose srcRect.top differs from
\* dstRect.top (the rectangles overlapping vertically or not) leaves every
\* row with the image that copying the block from an independent snapshot
\* of the source rows leaves it with.
C2_OverlappingCopyMatchesSnapshot ==
    (/\ Observed("CopyBlock")
     /\ last.args.srcRect.top # last.args.dstRect.top)
        => LET via == CopyBlockViaSnapshot(last.buffer, last.heap,
                                           last.args.srcRect, last.args.dstRect)
           IN  \A r \in RowOffsets :
                   RowImage(buffer, heap, r) = RowImage(via.buffer, via.heap, r)

\* The observed CopyBlock moves two or more rows, each holding pixels, by
\* one row (down when `down`), every row of the buffer having one rendition
\* and the destination range being all the columns.
OverlappingMove(down) ==
    /\ Observed("CopyBlock")
    /\ Height(last.args.srcRect) >= 2
    /\ last.args.dstRect.top - last.args.srcRect.top = (IF down THEN 1 ELSE -1)
    /\ last.args.srcRect.left = 0
    /\ last.args.dstRect.left = 0
    /\ last.args.dstRect.right = MaxBlockColumn
    /\ \A r \in RowOffsets : buffer[r].lineRendition = buffer[0].lineRendition
    /\ \A y \in 0 .. (Height(last.args.srcRect) - 1) :
          /\ HasSlice(last.buffer, last.args.srcRect.top + y)
          /\ RowImage(buffer, heap, last.args.dstRect.top + y)
               = RowImage(last.buffer, last.heap, last.args.srcRect.top + y)
          /\ RowImage(buffer, heap, last.args.dstRect.top + y)
               # RowImage(last.buffer, last.heap, last.args.dstRect.top + y)

C2_Witness == OverlappingMove(TRUE)

\* C9: no row ever holds a zero-extent slice: a row holds no slice, or one
\* with columnBegin < columnEnd and pixels in its buffer.
C9_NoZeroExtentSlice ==
    \A r \in RowOffsets :
        HasSlice(buffer, r) =>
            /\ SliceOf(buffer, heap, r).columnBegin < SliceOf(buffer, heap, r).columnEnd
            /\ Len(SliceOf(buffer, heap, r).pixelBuffer) > 0

\* A CopyCells made by CopyBlock took the copy path into a row without a
\* slice, found no pixels in the requested source range, and left the row
\* without a slice.
C9_Witness ==
    /\ Observed("CopyBlock")
    /\ Height(last.args.srcRect) = 1
    /\ last.args.dstRect.left < last.args.dstRect.right
    /\ ~CopyDegradesToErase(last.buffer, last.args.srcRect.top, last.args.dstRect.top)
    /\ ~HasSlice(last.buffer, last.args.dstRect.top)
    /\ ~HasSlice(buffer, last.args.dstRect.top)

\* The text buffer in which `row` has never been given a slice.
NeverWritten(buf, hp, row) ==
    [buffer |-> [buf EXCEPT ![row].imageSlice = NullPtr],
     heap |-> [hp EXCEPT ![Alloc(row)] = Released]]

\* The observed EraseCells was made on a row holding a slice, over exactly
\* the covered range of that slice.
ErasedWholeRange ==
    /\ Observed("EraseCells")
    /\ HasSlice(last.buffer, last.args.row)
    /\ ErasedRange(last.buffer, last.args).begin
         = SliceOf(last.buffer, last.heap, last.args.row).columnBegin
    /\ ErasedRange(last.buffer, last.args).end
         = SliceOf(last.buffer, last.heap, last.args.row).columnEnd

\* CopyCells from srcRow, srcColumn into the range of the observed EraseCells,
\* made in the state that EraseCells left.
CopyIntoErased(srcRow, srcColumn) ==
    CopyCells(buffer, heap, srcRow, srcColumn, last.args.row,
              last.args.columnBegin, last.args.columnEnd)

\* C11: EraseCells over the entire covered range of a row's slice followed
\* by CopyCells into that same range leaves the row with the image (covered
\* range, stride and pixels) that the same CopyCells leaves a row that never
\* held a slice with; and no column of the row shows a pixel of the row's
\* earlier content: a column reads as the source column copied to it, or zero.
C11_OverwriteLeavesNoResidue ==
    ErasedWholeRange =>
        \A srcRow \in RowOffsets, srcColumn \in Columns :
            LET row == last.args.row
                copied == CopyIntoErased(srcRow, srcColumn)
                fresh == NeverWritten(buffer, heap, row)
                once == CopyCells(fresh.buffer, fresh.heap, srcRow, srcColumn, row,
                                  last.args.columnBegin, last.args.columnEnd)
                range == ErasedRange(last.buffer, last.args)
                scale == Scale(buffer[srcRow].lineRendition)
                srcBegin == ShiftLeft(srcColumn, scale)
                copies == /\ srcRow # row
                          /\ ~CopyDegradesToErase(buffer, srcRow, row)
            IN  /\ RowImage(copied.buffer, copied.heap, row)
                     = RowImage(once.buffer, once.heap, row)
                /\ \A c \in AllColumns :
                      ColumnPixels(copied.buffer, copied.heap, row, c)
                        = IF copies /\ range.begin <= c /\ c < range.end
                          THEN ColumnPixels(buffer, heap, srcRow,
                                            srcBegin + (c - range.begin))
                          ELSE Transparent

\* The erased row held pixels in two columns or more; a source row holds
\* pixels for a part of the range only, and the copy leaves the row with a
\* slice that shows them and nothing else.
C11_Witness ==
    /\ ErasedWholeRange
    /\ ErasedRange(last.buffer, last.args).end
         > ErasedRange(last.buffer, last.args).begin + 1
    /\ \A c \in ErasedRange(last.buffer, last.args).begin
                  .. (ErasedRange(last.buffer, last.args).end - 1) :
          ColumnPixels(last.buffer, last.heap, last.args.row, c) # Transparent
    /\ \E srcRow \in RowOffsets, srcColumn \in Columns :
          LET copied == CopyIntoErased(srcRow, srcColumn)
              range == ErasedRange(last.buffer, last.args)
          IN  /\ HasSlice(copied.buffer, last.args.row)
              /\ ColumnPixels(copied.buffer, copied.heap, last.args.row, range.begin)
                   # Transparent
              /\ ColumnPixels(copied.buffer, copied.heap, last.args.row, range.end - 1)
                   = Transparent

\* The slice the observed MutablePixels call was made on: the row's slice,
\* or the ImageSlice just constructed for a row without one.
SliceBefore ==
    IF HasSlice(last.buffer, 0) THEN SliceOf(last.buffer, last.heap, 0)
    ELSE ImageSlice(cellSize)

\* C12: the position MutablePixels(columnBegin, columnEnd) returns is the
\* pixel offset (columnBegin - slice.columnBegin) * cellSize.width of the
\* slice as the call leaves it, and cellSize.height scanlines of (columnEnd -
\* columnBegin) * cellSize.width pixels written from there, stepping by
\* pixelWidth, lie inside the pixel buffer.
C12_ReturnedPositionIsWritable ==
    last # NoCall =>
        LET new == SliceOf(buffer, heap, 0)
            position == ReturnedPosition(SliceBefore, last.args.columnBegin,
                                         last.args.columnEnd)
            length == (last.args.columnEnd - last.args.columnBegin) * new.cellSize.width
        IN  /\ position = (last.args.columnBegin - new.columnBegin) * new.cellSize.width
            /\ position >= 0
            /\ \A y \in 0 .. (new.cellSize.height - 1) :
                  position + y * new.pixelWidth + length <= Len(new.pixelBuffer)
            /\ length <= new.pixelWidth

\* A request inside a slice that covers more on both sides: the position
\* is not the start of the buffer and the last scanline written ends before
\* the end of the buffer.
C12_Witness ==
    /\ last # NoCall
    /\ last.args.wrote
    /\ cellSize.height > 1
    /\ LET new == SliceOf(buffer, heap, 0)
           position == ReturnedPosition(SliceBefore, last.args.columnBegin,
                                        last.args.columnEnd)
       IN  /\ new.columnBegin < last.args.columnBegin
           /\ last.args.columnEnd < new.columnEnd
           /\ position > 0
           /\ new.pixelBuffer[position + (new.cellSize.height - 1) * new.pixelWidth + 1]
                = Stamp(0, last.args.columnBegin, 0, new.cellSize.height - 1)

\* The width in pixels of the covered range of a slice, before padding.
CoveredPixels(slice) == (slice.columnEnd - slice.columnBegin) * slice.cellSize.width

\* pixelWidth is the covered width rounded up to the next multiple of 4 and
\* the pixel buffer holds cellSize.height scanlines of pixelWidth pixels.
WellSized(slice) ==
    /\ slice.pixelWidth % 4 = 0
    /\ slice.pixelWidth >= CoveredPixels(slice)
    /\ slice.pixelWidth < CoveredPixels(slice) + 4
    /\ Len(slice.pixelBuffer) = slice.pixelWidth * slice.cellSize.height

\* C13: in every state, after a write, a copy, an erase or a CopyRow alike,
\* the slice of every row has pixelWidth = (columnEnd - columnBegin) *
\* cellSize.width rounded up to the next multiple of 4 and a pixel buffer of
\* pixelWidth * cellSize.height pixels; a slice of cell size 8 x 16 grown to
\* columns [0, 3) has pixelWidth 24.
C13_PixelWidthAndBufferSize ==
    /\ \A r \in RowOffsets :
          HasSlice(buffer, r) => WellSized(SliceOf(buffer, heap, r))
    /\ LET grown == MutablePixels(ImageSlice([width |-> 8, height |-> 16]), 0, 3)
       IN  /\ grown.pixelWidth = 24
           /\ Len(grown.pixelBuffer) = 24 * 16

\* A CopyCells grew the destination's slice, and a CopyRow then gave another
\* row a copy of it: both slices carry padding.
C13_Witness ==
    /\ Observed("CopyRow")
    /\ last.args.srcRow # last.args.dstRow
    /\ HasSlice(buffer, last.args.srcRow)
    /\ HasSlice(buffer, last.args.dstRow)
    /\ LET slice == SliceOf(buffer, heap, last.args.dstRow)
       IN  /\ slice.pixelWidth > CoveredPixels(slice)
           /\ slice.columnEnd - slice.columnBegin >= 2
           /\ \E c \in slice.columnBegin .. (slice.columnEnd - 1) :
                 ColumnPixels(buffer, heap, last.args.dstRow, c) = Transparent

\* C14: after EraseBlock(buffer, rect) every row y with rect.top <= y <
\* rect.bottom is in the state EraseCells(row, rect.left, rect.right) made
\* before the call leaves it in, and reads all zero in the columns
\* [rect.left, rect.right) scaled by the row's rendition; every other row is
\* as it was; with rect.top >= rect.bottom nothing changes.
C14_EraseBlockErasesEachRow ==
    Observed("EraseBlock") =>
        LET rect == last.args.rect
        IN  /\ \A r \in RowOffsets :
                  IF rect.top <= r /\ r < rect.bottom
                  THEN LET erase == EraseCells(last.buffer, last.heap, r,
                                               rect.left, rect.right)
                           scale == Scale(last.buffer[r].lineRendition)
                       IN  /\ RowImage(buffer, heap, r)
                                = RowImage(erase.buffer, erase.heap, r)
                           /\ \A c \in AllColumns :
                                 ColumnPixels(buffer, heap, r, c)
                                   = IF /\ ShiftLeft(rect.left, scale) <= c
                                        /\ c < ShiftLeft(rect.right, scale)
                                     THEN Transparent
                                     ELSE ColumnPixels(last.buffer, last.heap, r, c)
                  ELSE RowImage(buffer, heap, r) = RowImage(last.buffer, last.heap, r)
            /\ rect.top >= rect.bottom => (buffer = last.buffer /\ heap = last.heap)
            /\ \A r \in RowOffsets :
                  buffer[r].lineRendition = last.buffer[r].lineRendition

\* An EraseBlock over two rows holding pixels: the second loses its slice,
\* the first keeps it with the range zero-filled and pixels outside it.
C14_Witness ==
    /\ Observed("EraseBlock")
    /\ last.args.rect.bottom = last.args.rect.top + 2
    /\ last.args.rect.left < last.args.rect.right
    /\ HasSlice(last.buffer, last.args.rect.top)
    /\ HasSlice(last.buffer, last.args.rect.top + 1)
    /\ HasSlice(buffer, last.args.rect.top)
    /\ ~HasSlice(buffer, last.args.rect.top + 1)
    /\ ColumnPixels(last.buffer, last.heap, last.args.rect.top, last.args.rect.left)
         # Transparent
    /\ ColumnPixels(buffer, heap, last.args.rect.top, last.args.rect.left) = Transparent
    /\ \E c \in AllColumns :
          ColumnPixels(buffer, heap, last.args.rect.top, c) # Transparent

\* An EraseBlock with rect.top >= rect.bottom on a buffer holding pixels.
C14_EmptyWitness ==
    /\ Observed("EraseBlock")
    /\ last.args.rect.top > last.args.rect.bottom
    /\ last.args.rect.left < last.args.rect.right
    /\ \E r \in RowOffsets : HasSlice(buffer, r)

\* The factor between text columns and slice columns of a row.
ColumnFactor(lineRendition) == IF lineRendition = "SingleWidth" THEN 1 ELSE 2

\* C15: EraseCells on a row without a slice changes nothing and creates no
\* slice.  On a row with a slice it applies the internal erase to
\* [columnBegin, columnEnd) when the row is SingleWidth and to
\* [2 * columnBegin, 2 * columnEnd) for any other rendition: the row loses
\* its slice when that range contains the covered range, and otherwise keeps
\* it with exactly the columns of that range reading zero.
C15_EraseCellsScalesRange ==
    Observed("EraseCells") =>
        LET row == last.args.row
            factor == ColumnFactor(last.buffer[row].lineRendition)
            begin == factor * last.args.columnBegin
            end == factor * last.args.columnEnd
        IN  IF ~HasSlice(last.buffer, row)
            THEN buffer = last.buffer /\ heap = last.heap
            ELSE LET old == SliceOf(last.buffer, last.heap, row)
                     r == _eraseCells(old, begin, end)
                 IN  /\ HasSlice(buffer, row)
                          <=> ~(begin <= old.columnBegin /\ end >= old.columnEnd)
                     /\ HasSlice(buffer, row) => SliceOf(buffer, heap, row) = r.slice
                     /\ \A c \in AllColumns :
                           ColumnPixels(buffer, heap, row, c)
                             = IF begin <= c /\ c < end THEN Transparent
                               ELSE ColumnPixels(last.buffer, last.heap, row, c)

\* An EraseCells on a DoubleHeightTop row: the column columnBegin keeps its
\* pixels and the column 2 * columnBegin loses them.
C15_Witness ==
    /\ Observed("EraseCells")
    /\ last.buffer[last.args.row].lineRendition = "DoubleHeightTop"
    /\ last.args.columnBegin >= 1
    /\ HasSlice(buffer, last.args.row)
    /\ ColumnPixels(buffer, heap, last.args.row, last.args.columnBegin) # Transparent
    /\ ColumnPixels(last.buffer, last.heap, last.args.row, 2 * last.args.columnBegin)
         # Transparent
    /\ ColumnPixels(buffer, heap, last.args.row, 2 * last.args.columnBegin) = Transparent

\* An EraseCells on a row without a slice, another row holding one.
C15_NoSliceWitness ==
    /\ Observed("EraseCells")
    /\ ~HasSlice(last.buffer, last.args.row)
    /\ last.args.columnBegin < last.args.columnEnd
    /\ \E r \in RowOffsets : HasSlice(buffer, r)

\* The observed CopyCells took the copy path: the source row held a slice
\* and the two rows had one LineRendition.
CopyPath ==
    /\ Observed("CopyCells")
    /\ ~CopyDegradesToErase(last.buffer, last.args.srcRow, last.args.dstRow)

\* C16: on the copy path CopyCells hands the internal copy the source column
\* and both ends of the destination range as they are when the rows are
\* SingleWidth and all three doubled otherwise: the destination row ends as
\* that internal copy leaves it, and each of the (dstColumnEnd -
\* dstColumnBegin) * factor slice columns from factor * dstColumnBegin on
\* whose source column (counted from factor * srcColumn) is covered reads as
\* that source column read before the call.
C16_CopyScalesAllThree ==
    CopyPath =>
        LET a == last.args
            factor == ColumnFactor(last.buffer[a.srcRow].lineRendition)
            srcSlice == last.buffer[a.srcRow].imageSlice
            created == ~HasSlice(last.buffer, a.dstRow)
            dstSlice == IF created THEN Alloc(a.dstRow)
                        ELSE last.buffer[a.dstRow].imageSlice
            hp0 == IF created
                   THEN [last.heap EXCEPT
                            ![dstSlice] = ImageSlice(last.heap[srcSlice].cellSize)]
                   ELSE last.heap
            r == _copyCells(hp0, dstSlice, srcSlice, factor * a.srcColumn,
                            factor * a.dstColumnBegin, factor * a.dstColumnEnd)
            src == last.heap[srcSlice]
        IN  /\ RowImage(buffer, heap, a.dstRow)
                 = IF r.erased THEN <<>> ELSE <<r.heap[dstSlice]>>
            /\ \A d \in 0 .. ((a.dstColumnEnd - a.dstColumnBegin) * factor - 1) :
                  LET c == factor * a.srcColumn + d
                  IN  (src.columnBegin <= c /\ c < src.columnEnd) =>
                          ColumnPixels(buffer, heap, a.dstRow,
                                       factor * a.dstColumnBegin + d)
                            = ColumnPixels(last.buffer, last.heap, a.srcRow, c)

\* A copy of one text column between two DoubleWidth rows, from text column
\* 1 to text column 0: slice columns 2 and 3 of the source arrive at slice
\* columns 0 and 1 of the destination.
C16_Witness ==
    /\ CopyPath
    /\ last.buffer[last.args.srcRow].lineRendition = "DoubleWidth"
    /\ last.args.srcRow # last.args.dstRow
    /\ last.args.srcColumn = 1
    /\ last.args.dstColumnBegin = 0
    /\ last.args.dstColumnEnd = 1
    /\ \A d \in 0 .. 1 :
          /\ ColumnPixels(last.buffer, last.heap, last.args.srcRow, 2 + d) # Transparent
          /\ ColumnPixels(buffer, heap, last.args.dstRow, d)
               = ColumnPixels(last.buffer, last.heap, last.args.srcRow, 2 + d)
          /\ ColumnPixels(buffer, heap, last.args.dstRow, d)
               # ColumnPixels(last.buffer, last.heap, last.args.dstRow, d)

\* C17: no call changes the cellSize of a slice: a row that holds its slice
\* through a write, an erase or a copy of cells finds it with the cellSize it
\* had, and CopyRow leaves the source's slice its cellSize and gives the copy
\* the same.  A slice constructed for a write has the cell size it was
\* constructed with, and a destination slice that CopyCells creates has the
\* cellSize of the source's slice.
C17_CellSizeIsFixed ==
    last # NoCall =>
        /\ \A r \in RowOffsets :
              (/\ HasSlice(last.buffer, r)
               /\ HasSlice(buffer, r)
               /\ ~(Observed("CopyRow") /\ r = last.args.dstRow))
                  => SliceOf(buffer, heap, r).cellSize
                       = SliceOf(last.buffer, last.heap, r).cellSize
        /\ (Observed("CopyRow") /\ HasSlice(buffer, last.args.dstRow))
              => SliceOf(buffer, heap, last.args.dstRow).cellSize
                   = SliceOf(last.buffer, last.heap, last.args.srcRow).cellSize
        /\ (/\ Observed("MutablePixels")
            /\ ~HasSlice(last.buffer, last.args.row))
              => SliceOf(buffer, heap, last.args.row).cellSize = cellSize
        /\ (/\ CopyPath
            /\ ~HasSlice(last.buffer, last.args.dstRow)
            /\ HasSlice(buffer, last.args.dstRow))
              => SliceOf(buffer, heap, last.args.dstRow).cellSize
                   = SliceOf(last.buffer, last.heap, last.args.srcRow).cellSize

\* CopyCells creates a destination slice from a source slice whose cell
\* size is not the one images are written with at the time.
C17_Witness ==
    /\ CopyPath
    /\ ~HasSlice(last.buffer, last.args.dstRow)
    /\ HasSlice(buffer, last.args.dstRow)
    /\ SliceOf(buffer, heap, last.args.dstRow).cellSize.width # cellSize.width
    /\ SliceOf(buffer, heap, last.args.dstRow).cellSize.height # cellSize.height
    /\ SliceOf(buffer, heap, last.args.dstRow).cellSize
         = SliceOf(last.buffer, last.heap, last.args.srcRow).cellSize

\* CopyCells between two slices of different cell sizes: the destination
\* keeps its own.
C17_MixedSizesWitness ==
    /\ CopyPath
    /\ HasSlice(last.buffer, last.args.dstRow)
    /\ HasSlice(buffer, last.args.dstRow)
    /\ SliceOf(last.buffer, last.heap, last.args.srcRow).cellSize
         # SliceOf(last.buffer, last.heap, last.args.dstRow).cellSize
    /\ RowImage(buffer, heap, last.args.dstRow)
         # RowImage(last.buffer, last.heap, last.args.dstRow)

\* The row offsets 0 .. height - 1 counted down, and counted up.
BottomToTop(height) == [i \in 1 .. Max(height, 0) |-> height - i]
TopToBottom(height) == [i \in 1 .. Max(height, 0) |-> i - 1]

\* C18: CopyBlock visits the row offsets y = srcRect.height() - 1 down to 0
\* when srcRect.top < dstRect.top and y = 0 up to srcRect.height() - 1
\* otherwise, each offset once: the text buffer ends as the CopyCells calls
\* made in that order leave it, and no row is read as a source row after an
\* earlier visit of the same call wrote it as a destination row.
C18_CopyBlockRowOrder ==
    Observed("CopyBlock") =>
        LET srcRect == last.args.srcRect
            dstRect == last.args.dstRect
            height == Height(srcRect)
            claimed == IF srcRect.top < dstRect.top THEN BottomToTop(height)
                       ELSE TopToBottom(height)
            order == CopyBlockOrder(srcRect, dstRect)
            r == CopyBlockRows([buffer |-> last.buffer, heap |-> last.heap,
                                overrun |-> FALSE], srcRect, dstRect, claimed)
        IN  /\ order = claimed
            /\ Len(order) = Max(height, 0)
            /\ \A y \in 0 .. (height - 1) :
                  Cardinality({i \in DOMAIN order : order[i] = y}) = 1
            /\ \A i, j \in DOMAIN order :
                  i < j => dstRect.top + order[i] # srcRect.top + order[j]
            /\ buffer = r.buffer
            /\ heap = r.heap

C18_Witness == OverlappingMove(FALSE)

\* On the copy path of the observed CopyCells, an erase step of the internal
\* copy was asked for a range that contains the whole range the destination
\* slice covered at that moment.
FullEraseAsked ==
    LET a == last.args
        scale == Scale(last.buffer[a.srcRow].lineRendition)
        src == SliceOf(last.buffer, last.heap, a.srcRow)
        dst == IF HasSlice(last.buffer, a.dstRow)
               THEN SliceOf(last.buffer, last.heap, a.dstRow)
               ELSE ImageSlice(src.cellSize)
        r == CopyRanges(src, dst, ShiftLeft(a.srcColumn, scale),
                        ShiftLeft(a.dstColumnBegin, scale),
                        ShiftLeft(a.dstColumnEnd, scale))
        written == IF r.dstWriteBegin < r.dstWriteEnd
                   THEN MutablePixels(dst, r.dstWriteBegin, r.dstWriteEnd)
                   ELSE dst
    IN  \/ /\ r.dstUsedBegin < r.dstWriteBegin
           /\ _eraseCells(written, r.dstUsedBegin, r.dstWriteBegin).erased
        \/ /\ r.dstUsedEnd > r.dstWriteEnd
           /\ _eraseCells(written, r.dstWriteEnd, r.dstUsedEnd).erased

\* C19: when CopyCells takes the copy path and an erase step of the internal
\* copy is asked to erase a range containing the destination slice's whole
\* covered range, the destination row holds no slice when CopyCells returns.
C19_FullEraseInCopyDropsSlice ==
    (CopyPath /\ FullEraseAsked) => ~HasSlice(buffer, last.args.dstRow)

\* The covered range of the slice of row r now contains the range the slice
\* of row r covered when the observed call was made.
StillCovers(r) ==
    /\ SliceOf(buffer, heap, r).columnBegin
         <= SliceOf(last.buffer, last.heap, r).columnBegin
    /\ SliceOf(buffer, heap, r).columnEnd
         >= SliceOf(last.buffer, last.heap, r).columnEnd

\* C20: a write through MutablePixels, a CopyBlock (the CopyCells calls it
\* makes) and an EraseBlock (the EraseCells calls it makes) never narrow a
\* covered range: a row holding a slice before and after the call has a
\* covered range that contains the one it had.
C20_CoveredRangeNeverNarrows ==
    (last # NoCall /\ ~Observed("CopyRow")) =>
        \A r \in RowOffsets :
            (HasSlice(last.buffer, r) /\ HasSlice(buffer, r)) => StillCovers(r)

\* An EraseBlock zero-filled the first covered column of a row, which
\* stays covered.
C20_Witness ==
    /\ Observed("EraseBlock")
    /\ \E r \in RowOffsets :
          /\ last.args.rect.top <= r /\ r < last.args.rect.bottom
          /\ HasSlice(last.buffer, r)
          /\ HasSlice(buffer, r)
          /\ LET old == SliceOf(last.buffer, last.heap, r)
             IN  /\ ColumnPixels(last.buffer, last.heap, r, old.columnBegin) # Transparent
                 /\ ColumnPixels(buffer, heap, r, old.columnBegin) = Transparent
                 /\ SliceOf(buffer, heap, r).columnBegin = old.columnBegin
                 /\ SliceOf(buffer, heap, r).columnEnd = old.columnEnd

\* A CopyBlock wrote to the left of what a row covered: the covered range
\* grew.
C20_GrowthWitness ==
    /\ Observed("CopyBlock")
    /\ \E r \in RowOffsets :
          /\ HasSlice(last.buffer, r)
          /\ HasSlice(buffer, r)
          /\ SliceOf(buffer, heap, r).columnBegin
               < SliceOf(last.buffer, last.heap, r).columnBegin

\* The internal copy the observed CopyCells made on its copy path: the
\* addresses of the two slices, the heap it started from (a destination
\* slice just created included), the arguments it was given, the ranges it
\* computed, whether it wrote, and the heap as MutablePixels left it before
\* the scanlines were moved.
InternalCopy ==
    LET a == last.args
        scale == Scale(last.buffer[a.srcRow].lineRendition)
        src == last.buffer[a.srcRow].imageSlice
        created == ~HasSlice(last.buffer, a.dstRow)
        dst == IF created THEN Alloc(a.dstRow) ELSE last.buffer[a.dstRow].imageSlice
        hp0 == IF created
               THEN [last.heap EXCEPT ![dst] = ImageSlice(last.heap[src].cellSize)]
               ELSE last.heap
        srcColumn == ShiftLeft(a.srcColumn, scale)
        dstColumnBegin == ShiftLeft(a.dstColumnBegin, scale)
        dstColumnEnd == ShiftLeft(a.dstColumnEnd, scale)
        r == CopyRanges(hp0[src], hp0[dst], srcColumn, dstColumnBegin, dstColumnEnd)
        writes == r.dstWriteBegin < r.dstWriteEnd
    IN  [src |-> src, dst |-> dst, heap |-> hp0,
         srcColumn |-> srcColumn, dstColumnBegin |-> dstColumnBegin,
         dstColumnEnd |-> dstColumnEnd,
         ranges |-> r, writes |-> writes,
         grown |-> IF writes
                   THEN [hp0 EXCEPT ![dst] =
                            MutablePixels(hp0[dst], r.dstWriteBegin, r.dstWriteEnd)]
                   ELSE hp0]

\* C21: the internal copy calls Pixels(column) only when its write range is
\* not empty; the column is then inside the covered range of the source
\* slice (as the slice is at the call, after the destination was resized),
\* the offset Pixels computes is inside the source's pixel buffer, and the
\* columns [srcUsedBegin, srcUsedEnd) read from each source scanline all lie
\* inside the source's covered range.
C21_PixelsCalledInsideCoveredRange ==
    CopyPath =>
        LET copy == InternalCopy
            r == copy.ranges
            before == copy.heap[copy.src]
            source == copy.grown[copy.src]
        IN  /\ copy.writes <=> r.srcUsedBegin < r.srcUsedEnd
            /\ copy.writes =>
                  /\ before.columnBegin <= r.srcUsedBegin
                  /\ r.srcUsedEnd <= before.columnEnd
                  /\ source.columnBegin <= r.srcUsedBegin
                  /\ r.srcUsedBegin < source.columnEnd
                  /\ r.srcUsedEnd <= source.columnEnd
                  /\ Pixels(source, r.srcUsedBegin) >= 0
                  /\ Pixels(source, r.srcUsedBegin) < Len(source.pixelBuffer)
                  /\ r.srcUsedEnd - r.srcUsedBegin = r.dstWriteEnd - r.dstWriteBegin

\* A copy whose requested source range starts before and ends after the
\* source's covered range: both ends were clamped and pixels were written.
C21_Witness ==
    /\ CopyPath
    /\ last.args.srcRow # last.args.dstRow
    /\ LET copy == InternalCopy
           source == copy.heap[copy.src]
       IN  /\ copy.writes
           /\ copy.srcColumn < source.columnBegin
           /\ copy.srcColumn + copy.dstColumnEnd - copy.dstColumnBegin > source.columnEnd
           /\ copy.ranges.srcUsedBegin = source.columnBegin
           /\ copy.ranges.srcUsedEnd = source.columnEnd
           /\ HasSlice(buffer, last.args.dstRow)

\* A copy inside one row that made the slice grow to the left before
\* Pixels was called.
C21_SelfCopyWitness ==
    /\ CopyPath
    /\ last.args.srcRow = last.args.dstRow
    /\ LET copy == InternalCopy
       IN  /\ copy.writes
           /\ copy.grown[copy.src].columnBegin < copy.heap[copy.src].columnBegin

\* The observed CopyCells made from an untouched copy of the source row
\* instead, a row of its own under the text buffer.
CopyCellsViaSnapshot ==
    LET a == last.args
        n == Cardinality(DOMAIN last.buffer)
        snapshot == WithSnapshot(last.buffer, last.heap)
    IN  CopyCells(snapshot.buffer, snapshot.heap, a.srcRow + n, a.srcColumn,
                  a.dstRow, a.dstColumnBegin, a.dstColumnEnd)

\* C22: a CopyCells whose source row is its destination row leaves the row
\* with the image (covered range, stride, every pixel) that the same
\* CopyCells made from an untouched snapshot of the row leaves it with,
\* whether the two column ranges overlap or not and whether the slice grows
\* or not.
C22_MoveInsideRowMatchesSnapshot ==
    (CopyPath /\ last.args.srcRow = last.args.dstRow) =>
        LET via == CopyCellsViaSnapshot
            row == last.args.dstRow
        IN  /\ RowImage(buffer, heap, row) = RowImage(via.buffer, via.heap, row)
            /\ \A c \in AllColumns :
                  ColumnPixels(buffer, heap, row, c)
                    = ColumnPixels(via.buffer, via.heap, row, c)

\* A move of two columns or more by one column to the left inside one row,
\* the slice growing to the left: the ranges overlap and every column moved
\* arrives.
C22_Witness ==
    /\ CopyPath
    /\ last.args.srcRow = last.args.dstRow
    /\ LET copy == InternalCopy
           r == copy.ranges
       IN  /\ copy.writes
           /\ r.dstWriteEnd - r.dstWriteBegin >= 2
           /\ r.dstWriteBegin = r.srcUsedBegin - 1
           /\ copy.grown[copy.src].columnBegin < copy.heap[copy.src].columnBegin
           /\ \A c \in r.srcUsedBegin .. (r.srcUsedEnd - 1) :
                 /\ ColumnPixels(last.buffer, last.heap, last.args.srcRow, c) # Transparent
                 /\ ColumnPixels(buffer, heap, last.args.dstRow, c - 1)
                      = ColumnPixels(last.buffer, last.heap, last.args.srcRow, c)

\* C23: when MutablePixels reallocates a buffer that holds data, the copy of
\* each old scanline i (the old stride, padding included) to offset
\* (oldColumnBegin - newColumnBegin) * cellSize.width + i * newPixelWidth
\* ends inside the new buffer, for every cell size and direction of growth.
C23_GrowthCopiesInsideNewBuffer ==
    Reallocated =>
        LET old == SliceOf(last.buffer, last.heap, 0)
            new == MutablePixels(old, last.args.columnBegin, last.args.columnEnd)
            newOffset == (old.columnBegin - new.columnBegin) * old.cellSize.width
        IN  \A i \in 0 .. (old.cellSize.height - 1) :
                newOffset + i * new.pixelWidth + old.pixelWidth
                  <= new.pixelWidth * new.cellSize.height

\* C24: CopyCells changes pixels of the destination row only inside the
\* destination range [dstColumnBegin, dstColumnEnd) (doubled when the row is
\* not SingleWidth): every destination column outside it reads afterwards as
\* it read before, wherever the source's covered range lies, and a CopyCells
\* with dstColumnBegin >= dstColumnEnd leaves the destination row as it was.
C24_CopyCellsKeepsOutside ==
    Observed("CopyCells") =>
        /\ \A c \in AllColumns :
              ~(ScaledDstRange.begin <= c /\ c < ScaledDstRange.end) =>
                  ColumnPixels(buffer, heap, last.args.dstRow, c)
                    = ColumnPixels(last.buffer, last.heap, last.args.dstRow, c)
        /\ last.args.dstColumnBegin >= last.args.dstColumnEnd =>
              RowImage(buffer, heap, last.args.dstRow)
                = RowImage(last.buffer, last.heap, last.args.dstRow)

\* The observed CopyCells copied between two slices of different cellSize.
CopyBetweenSizes ==
    /\ CopyPath
    /\ HasSlice(last.buffer, last.args.dstRow)
    /\ SliceOf(last.buffer, last.heap, last.args.srcRow).cellSize
         # SliceOf(last.buffer, last.heap, last.args.dstRow).cellSize
    /\ InternalCopy.writes

\* C25: when CopyCells copies into a row whose slice has a cellSize other
\* than the source slice's, every scanline the internal copy reads (as many
\* scanlines as the destination's cellSize.height, each of writeCellCount
\* times the destination's cellSize.width pixels, stepping by the source's
\* pixelWidth from Pixels(srcUsedBegin)) lies inside the source's pixel
\* buffer.
C25_ReadsInsideSourceBuffer ==
    CopyBetweenSizes =>
        LET copy == InternalCopy
            r == copy.ranges
            source == copy.grown[copy.src]
            destination == copy.grown[copy.dst]
            srcOffset == Pixels(source, r.srcUsedBegin)
            count == (r.dstWriteEnd - r.dstWriteBegin) * destination.cellSize.width
        IN  \A y \in 0 .. (destination.cellSize.height - 1) :
                srcOffset + y * source.pixelWidth + count <= Len(source.pixelBuffer)

\* The rows the observed call is applied to as destination rows.
DestinationRows ==
    CASE Observed("CopyBlock") ->
             {last.args.dstRect.top + y : y \in 0 .. (Height(last.args.srcRect) - 1)}
      [] Observed("EraseBlock") ->
             last.args.rect.top .. (last.args.rect.bottom - 1)
      [] OTHER -> Destination

\* C26: CopyBlock and CopyCells leave every source row that is not one of
\* the call's destination rows as it was (slice or none, covered range, pixel
\* width, every pixel), and EraseBlock and EraseCells leave every row they
\* are not applied to as it was.
C26_OnlyDestinationRowsChange ==
    (last # NoCall /\ ~Observed("CopyRow") /\ ~Observed("MutablePixels")) =>
        \A r \in RowOffsets \ DestinationRows :
            /\ buffer[r] = last.buffer[r]
            /\ RowImage(buffer, heap, r) = RowImage(last.buffer, last.heap, r)

\* A CopyBlock of two rows holding pixels by one row upwards: the last
\* source row is no destination row and is as it was, while the rows above
\* changed.
C26_Witness ==
    /\ OverlappingMove(FALSE)
    /\ LET r == last.args.srcRect.bottom - 1
       IN  /\ r \notin DestinationRows
           /\ HasSlice(buffer, r)
           /\ RowImage(buffer, heap, r) = RowImage(last.buffer, last.heap, r)

\* An EraseBlock that drops the slice of one row and leaves the slice of a
\* row outside the rectangle.
C26_EraseWitness ==
    /\ Observed("EraseBlock")
    /\ \E r \in DestinationRows : HasSlice(last.buffer, r) /\ ~HasSlice(buffer, r)
    /\ \E r \in RowOffsets \ DestinationRows : HasSlice(buffer, r)

\* C27: CopyBlock changes only the rows dstRect.top + y, 0 <= y <
\* srcRect.height().  The result does not depend on dstRect.bottom nor on
\* srcRect.right: the same call with any other value for either leaves the
\* text buffer the same.  A CopyBlock whose srcRect.height() is zero or less
\* changes nothing.
C27_CopyBlockRowsAndWidth ==
    Observed("CopyBlock") =>
        LET srcRect == last.args.srcRect
            dstRect == last.args.dstRect
        IN  /\ \A r \in RowOffsets \ DestinationRows :
                  /\ buffer[r] = last.buffer[r]
                  /\ RowImage(buffer, heap, r) = RowImage(last.buffer, last.heap, r)
            /\ \A bottom \in 0 .. NumBlockRows, right \in BlockColumns :
                  LET r == CopyBlock(last.buffer, last.heap,
                                     [srcRect EXCEPT !.right = right],
                                     [dstRect EXCEPT !.bottom = bottom])
                  IN  r.buffer = buffer /\ r.heap = heap
            /\ \A bottom \in 0 .. srcRect.top :
                  LET r == CopyBlock(last.buffer, last.heap,
                                     [srcRect EXCEPT !.bottom = bottom], dstRect)
                  IN  r.buffer = last.buffer /\ r.heap = last.heap

\* A CopyBlock of two rows changed both destination rows, and would with a
\* dstRect of no height; the third row holds a slice and is as it was.
C27_Witness ==
    /\ Observed("CopyBlock")
    /\ Height(last.args.srcRect) = 2
    /\ \A r \in DestinationRows :
          RowImage(buffer, heap, r) # RowImage(last.buffer, last.heap, r)
    /\ \E r \in RowOffsets \ DestinationRows :
          /\ HasSlice(buffer, r)
          /\ RowImage(buffer, heap, r) = RowImage(last.buffer, last.heap, r)
    /\ LET r == CopyBlock(last.buffer, last.heap, last.args.srcRect,
                          [last.args.dstRect EXCEPT !.bottom = last.args.dstRect.top])
       IN  r.buffer = buffer /\ r.heap = heap

\* A CopyBlock with srcRect.height() = 0 on a buffer holding pixels in the
\* row at dstRect.top.
C27_EmptyWitness ==
    /\ Observed("CopyBlock")
    /\ Height(last.args.srcRect) = 0
    /\ last.args.dstRect.left < last.args.dstRect.right
    /\ last.args.dstRect.top \in RowOffsets
    /\ HasSlice(buffer, last.args.dstRect.top)

\* C28: EraseCells and EraseBlock are idempotent.  An EraseBlock made again
\* in the state it left changes nothing; and in every state, for every row
\* and every column range (columnBegin above columnEnd included), two
\* EraseCells calls leave the text buffer as the first one leaves it.
C28_EraseIsIdempotent ==
    /\ Observed("EraseBlock") =>
          LET again == EraseBlock(buffer, heap, last.args.rect)
          IN  again.buffer = buffer /\ again.heap = heap
    /\ \A row \in RowOffsets, columnBegin, columnEnd \in Columns :
          LET once == EraseCells(buffer, heap, row, columnBegin, columnEnd)
              twice == EraseCells(once.buffer, once.heap, row, columnBegin, columnEnd)
          IN  twice.buffer = once.buffer /\ twice.heap = once.heap

\* An EraseBlock over two rows holding pixels that dropped the slice of one
\* and zero-filled a part of the other.
C28_Witness ==
    /\ Observed("EraseBlock")
    /\ Height(last.args.rect) = 2
    /\ \E r1, r2 \in DestinationRows :
          /\ HasSlice(last.buffer, r1) /\ ~HasSlice(buffer, r1)
          /\ HasSlice(last.buffer, r2) /\ HasSlice(buffer, r2)
          /\ RowImage(buffer, heap, r2) # RowImage(last.buffer, last.heap, r2)
          /\ \E c \in AllColumns : ColumnPixels(buffer, heap, r2, c) # Transparent

\* C29: in the internal copy, for a destination range that is not empty,
\* the projected write range lies inside the requested destination range:
\* dstColumnBegin <= dstWriteBegin <= dstWriteEnd <= dstColumnEnd, wherever
\* the source's covered range lies.
C29_WriteRangeInsideDestination ==
    (CopyPath /\ InternalCopy.dstColumnBegin < InternalCopy.dstColumnEnd) =>
        LET copy == InternalCopy
        IN  /\ copy.dstColumnBegin <= copy.ranges.dstWriteBegin
            /\ copy.ranges.dstWriteBegin <= copy.ranges.dstWriteEnd
            /\ copy.ranges.dstWriteEnd <= copy.dstColumnEnd

====
